---- MODULE Spec2Model ----
(***************************************************************************)
(* Model of the market/economic simulation engine of the real-estate game  *)
(* (src/src/game/market.py, property.py, player.py).                       *)
(*                                                                         *)
(* Numbers.  Python floats are modelled as exact rationals [n, d] in       *)
(* lowest terms with d > 0; Python ints that take part in float arithmetic *)
(* are the rationals with d = 1.  Percentages keep the code's unit (an     *)
(* interest rate of 2.5 is the rational 5/2).                              *)
(*                                                                         *)
(* Randomness.  Every call of the random module is an input of the action  *)
(* that makes it: the action receives a record of draws and the            *)
(* next-state relations choose that record from small sets of values the   *)
(* draw can produce.  The samples drawn by one category loop of            *)
(* generate_monthly_samples are given as a bag of per-sample draw records  *)
(* (sample_size is the size of the bag): the lists the loop fills are only *)
(* read by np.mean and np.sum, which do not depend on the order.           *)
(***************************************************************************)
EXTENDS Integers, Sequences, FiniteSets, TLC

VARIABLES
    market_conditions,  \* MarketAnalytics.market_conditions: trend, interest_rates, unemployment
    history,            \* MarketAnalytics.history: month -> list of MarketSnapshot __dict__s
    save_file,          \* "market_history" of player_data.json, NoFile before the first save
    called,             \* the last completed call: its name, arguments, draws and locals
    ret,                \* the value the last completed call returned
    properties,         \* the Property instances alive, as their fields
    player,             \* RealEstateGame.player: capital, properties, available_properties
    filtered_properties \* RealEstateGame.filtered_properties

vars == <<market_conditions, history, save_file, called, ret, properties, player, filtered_properties>>

----------------------------------------------------------------------------
(* Exact rational arithmetic standing for Python float arithmetic.         *)

Abs(x) == IF x < 0 THEN -x ELSE x

RECURSIVE GCD(_, _)
GCD(a, b) == IF b = 0 THEN a ELSE GCD(b, a % b)

Rat(num, den) ==
    LET g == GCD(Abs(num), Abs(den))
        s == IF den < 0 THEN -1 ELSE 1
    IN  [n |-> s * (num \div g), d |-> s * (den \div g)]

FromInt(i) == [n |-> i, d |-> 1]

RMul(a, b) ==
    LET g1 == GCD(Abs(a.n), b.d)
        g2 == GCD(Abs(b.n), a.d)
    IN  [n |-> (a.n \div g1) * (b.n \div g2), d |-> (a.d \div g2) * (b.d \div g1)]

RInv(a) == IF a.n < 0 THEN [n |-> -a.d, d |-> -a.n] ELSE [n |-> a.d, d |-> a.n]

RDiv(a, b) == RMul(a, RInv(b))

RAdd(a, b) ==
    LET g == GCD(a.d, b.d)
    IN  Rat(a.n * (b.d \div g) + b.n * (a.d \div g), (a.d \div g) * b.d)

RNeg(a) == [n |-> -a.n, d |-> a.d]

RSub(a, b) == RAdd(a, RNeg(b))

\* the sign of a/b - c/d (b, d > 0), by comparing integer parts and then the
\* reciprocals of the fractional parts, so that no product is formed
RECURSIVE Compare(_, _, _, _)
Compare(a, b, c, d) ==
    LET qa == a \div b
        qc == c \div d
        ra == a % b
        rc == c % d
    IN  IF qa # qc THEN (IF qa < qc THEN -1 ELSE 1)
        ELSE IF ra = 0 /\ rc = 0 THEN 0
        ELSE IF ra = 0 THEN -1
        ELSE IF rc = 0 THEN 1
        ELSE Compare(d, rc, b, ra)

RLt(a, b) == Compare(a.n, a.d, b.n, b.d) < 0

RLe(a, b) == Compare(a.n, a.d, b.n, b.d) <= 0

RMax(a, b) == IF RLt(a, b) THEN b ELSE a

RMin(a, b) == IF RLt(b, a) THEN b ELSE a

\* int(x): truncation toward zero
Trunc(a) == IF a.n >= 0 THEN a.n \div a.d ELSE -((-a.n) \div a.d)

Zero == FromInt(0)

One == FromInt(1)

----------------------------------------------------------------------------
(* property.py                                                             *)

\* Property.__init__: the fields, and the expense ratio drawn once
Property(property_type, address, units, price_per_unit, management_fee_percent, rent_per_unit, maintenance_per_unit, variation) ==
    [property_type |-> property_type,
     address |-> address,
     units |-> units,
     price_per_unit |-> price_per_unit,
     management_fee_percent |-> management_fee_percent,
     rent_per_unit |-> rent_per_unit,
     maintenance_per_unit |-> maintenance_per_unit,
     expense_ratio |-> RAdd(Rat(35, 100), variation)]

total_price(p) == RMul(FromInt(p.units), p.price_per_unit)

gross_income(p) == RMul(RMul(FromInt(p.units), p.rent_per_unit), FromInt(12))

management_fee(p) == RMul(gross_income(p), RDiv(p.management_fee_percent, FromInt(100)))

\* mutant of total_expenses: the base ratio taken anew, the instance's variation lost
total_expenses_base_ratio(p) == RMul(gross_income(p), Rat(35, 100))

total_expenses(p) == RMul(gross_income(p), p.expense_ratio)

\* mutant of net_income: the management fee and the maintenance taken off as well
net_income_less_fee(p) ==
    RSub(RSub(RSub(gross_income(p), total_expenses(p)), management_fee(p)),
         FromInt(p.units * p.maintenance_per_unit))

net_income(p) == RSub(gross_income(p), total_expenses(p))

\* mutant of cap_rate: the division made without the test of total_price
cap_rate_unguarded(p) ==
    IF total_price(p) = Zero THEN [raised |-> "ZeroDivisionError"]
    ELSE RMul(RDiv(net_income(p), total_price(p)), FromInt(100))

cap_rate(p) ==
    IF total_price(p) = Zero THEN Zero
    ELSE RMul(RDiv(net_income(p), total_price(p)), FromInt(100))

\* Property.to_dict: the seven constructor arguments and "expense_ratio"
to_dict(p) ==
    [property_type |-> p.property_type,
     address |-> p.address,
     units |-> p.units,
     price_per_unit |-> p.price_per_unit,
     management_fee_percent |-> p.management_fee_percent,
     rent_per_unit |-> p.rent_per_unit,
     maintenance_per_unit |-> p.maintenance_per_unit,
     expense_ratio |-> p.expense_ratio]

\* generate_units: the dict holds both randint draws, .get defaults to 1
generate_units(property_type, draw) ==
    CASE property_type = "Duplex" -> 2
      [] property_type = "Triplex" -> 3
      [] property_type = "Fourplex" -> 4
      [] property_type = "Apartment" -> draw.apartment_units
      [] property_type = "Apartment Complex" -> draw.complex_units
      [] OTHER -> 1

\* generate_property; d holds its draws
generate_property(property_type, d) ==
    LET prop == Property(property_type, d.address, generate_units(property_type, d),
                         FromInt(d.price_per_unit), d.management_fee_percent,
                         FromInt(d.rent_per_unit), d.maintenance_per_unit, d.variation)
    IN  IF RLt(d.underperform_roll, Rat(3, 10))
        THEN [prop EXCEPT !.rent_per_unit = RMul(@, d.rent_cut),
                          !.price_per_unit = RMul(@, d.price_rise)]
        ELSE prop

----------------------------------------------------------------------------
(* market.py: the engine                                                   *)

property_types == <<"Duplex", "Triplex", "Fourplex", "Apartment", "Apartment Complex">>

Trends == <<"bull", "bear", "stable">>

\* MarketAnalytics._calculate_seasonal_factors
seasonal_factors ==
    [k \in 1..12 |->
        CASE k = 1 -> Rat(95, 100)  [] k = 2 -> Rat(97, 100)  [] k = 3 -> Rat(103, 100)
          [] k = 4 -> Rat(105, 100) [] k = 5 -> Rat(107, 100) [] k = 6 -> Rat(106, 100)
          [] k = 7 -> Rat(104, 100) [] k = 8 -> Rat(102, 100) [] k = 9 -> Rat(101, 100)
          [] k = 10 -> Rat(100, 100) [] k = 11 -> Rat(98, 100) [] k = 12 -> Rat(96, 100)]

\* mutant of seasonal_factor: the key taken as month % 12, without "or 12"
seasonal_factor_without_or(month) ==
    LET key == month % 12
    IN  IF key \in DOMAIN seasonal_factors THEN seasonal_factors[key] ELSE One

\* self.seasonal_factors.get(month % 12 or 12, 1.0)
seasonal_factor(month) ==
    LET key == IF month % 12 = 0 THEN 12 ELSE month % 12
    IN  IF key \in DOMAIN seasonal_factors THEN seasonal_factors[key] ELSE One

trend_map(trend) ==
    CASE trend = "bull" -> Rat(102, 100)
      [] trend = "bear" -> Rat(98, 100)
      [] trend = "stable" -> One

\* mutant of get_economic_multipliers: the fluctuation left out of the rent
get_economic_multipliers_rent_unfluctuated(mc, month, fluctuation) ==
    LET seasonal == seasonal_factor(month)
        rate_impact == RSub(One, RDiv(RSub(mc.interest_rates, FromInt(4)), FromInt(100)))
        employment_impact == RSub(One, RDiv(RSub(mc.unemployment, FromInt(5)), FromInt(200)))
        trend == trend_map(mc.trend)
    IN  [price |-> RMul(RMul(RMul(seasonal, rate_impact), trend), fluctuation),
         rent |-> RMul(seasonal, employment_impact),
         inventory |-> RDiv(One, RMul(seasonal, trend))]

\* MarketAnalytics._get_economic_multipliers; fluctuation is its random.uniform(0.98, 1.02)
get_economic_multipliers(mc, month, fluctuation) ==
    LET seasonal == seasonal_factor(month)
        rate_impact == RSub(One, RDiv(RSub(mc.interest_rates, FromInt(4)), FromInt(100)))
        employment_impact == RSub(One, RDiv(RSub(mc.unemployment, FromInt(5)), FromInt(200)))
        trend == trend_map(mc.trend)
    IN  [price |-> RMul(RMul(RMul(seasonal, rate_impact), trend), fluctuation),
         rent |-> RMul(RMul(seasonal, employment_impact), fluctuation),
         inventory |-> RDiv(One, RMul(seasonal, trend))]

\* random.choice(seq): r is the index drawn by the random source
choice(seq, r) == seq[(r % Len(seq)) + 1]

\* MarketAnalytics.__init__: random.choice of the trend, two random.uniform draws
init_market_conditions(trend_pick, interest_rates, unemployment) ==
    [trend |-> choice(Trends, trend_pick),
     interest_rates |-> interest_rates,
     unemployment |-> unemployment]

\* mutant of clamp_interest_rates: the upper clamp forgotten
clamp_interest_rates_without_min(x) == RMax(Rat(25, 10), x)

\* max(2.5, min(10.0, x))
clamp_interest_rates(x) == RMax(Rat(25, 10), RMin(FromInt(10), x))

\* max(3.0, min(15.0, x))
clamp_unemployment(x) == RMax(FromInt(3), RMin(FromInt(15), x))

\* mutant of trend_transition: the current trend is not removed before the choice
trend_transition_without_remove(current, pick) == choice(Trends, pick)

\* the trend transition of _update_market_conditions: trends.remove(current), then choice
trend_transition(current, pick) ==
    LET trends == SelectSeq(Trends, LAMBDA t : t # current)
    IN  choice(trends, pick)

\* MarketAnalytics._update_market_conditions; d holds its four draws
update_market_conditions(mc, d) ==
    [interest_rates |-> clamp_interest_rates(RAdd(mc.interest_rates, d.rate_drift)),
     unemployment |-> clamp_unemployment(RAdd(mc.unemployment, d.unemployment_drift)),
     trend |-> IF RLt(d.trend_roll, Rat(2, 10))
               THEN trend_transition(mc.trend, d.trend_pick)
               ELSE mc.trend]

\* mutant of generate_property_with_economics: the two distress factors exchanged
generate_property_with_economics_swapped(prop_type, factors, s) ==
    LET price_mult == RMul(factors.price, s.price_noise)
        rent_mult == RMul(factors.rent, s.rent_noise)
        prop == Property(prop_type, "MARKET_SAMPLE", generate_units(prop_type, s),
                         FromInt(Trunc(RMul(FromInt(s.price_per_unit), price_mult))),
                         s.management_fee_percent,
                         FromInt(Trunc(RMul(FromInt(s.rent_per_unit), rent_mult))),
                         s.maintenance_per_unit, s.variation)
    IN  IF RLt(s.distress_roll, Rat(15, 100))
        THEN [prop EXCEPT !.price_per_unit = RMul(@, s.distress_rent),
                          !.rent_per_unit = RMul(@, s.distress_price)]
        ELSE prop

\* MarketAnalytics._generate_property_with_economics; s holds the draws of one sample
generate_property_with_economics(prop_type, factors, s) ==
    LET price_mult == RMul(factors.price, s.price_noise)
        rent_mult == RMul(factors.rent, s.rent_noise)
        prop == Property(prop_type, "MARKET_SAMPLE", generate_units(prop_type, s),
                         FromInt(Trunc(RMul(FromInt(s.price_per_unit), price_mult))),
                         s.management_fee_percent,
                         FromInt(Trunc(RMul(FromInt(s.rent_per_unit), rent_mult))),
                         s.maintenance_per_unit, s.variation)
    IN  IF RLt(s.distress_roll, Rat(15, 100))
        THEN [prop EXCEPT !.price_per_unit = RMul(@, s.distress_price),
                          !.rent_per_unit = RMul(@, s.distress_rent)]
        ELSE prop

\* The lists of the category loop (prices, rents, cap_rates, inventories, doms) are
\* sets of rows [sample, count, value]: the value appended for a sample with these draws,
\* and the number of samples that drew them.
RECURSIVE np_sum(_)
np_sum(rows) ==
    IF rows = {} THEN Zero
    ELSE LET r == CHOOSE x \in rows : TRUE
         IN  RAdd(RMul(FromInt(r.count), r.value), np_sum(rows \ {r}))

RECURSIVE list_len(_)
list_len(rows) ==
    IF rows = {} THEN 0
    ELSE LET r == CHOOSE x \in rows : TRUE
         IN  r.count + list_len(rows \ {r})

\* mutant of np_mean: the sum is not divided by the number of samples
np_mean_undivided(rows) == np_sum(rows)

np_mean(rows) == RDiv(np_sum(rows), FromInt(list_len(rows)))

\* the MarketSnapshot dataclass: the instance __dict__ after __init__
MarketSnapshot(property_type, avg_price_per_unit, avg_rent_per_unit, avg_cap_rate, inventory, days_on_market) ==
    [property_type |-> property_type,
     avg_price_per_unit |-> avg_price_per_unit,
     avg_rent_per_unit |-> avg_rent_per_unit,
     avg_cap_rate |-> avg_cap_rate,
     inventory |-> inventory,
     days_on_market |-> days_on_market]

\* one pass of the category loop of generate_monthly_samples; pop holds sample_size and
\* the draws of the sample_size samples
category_snapshot(prop_type, economic_factors, pop) ==
    LET samples == pop.samples
        props == {[sample |-> s, count |-> samples[s],
                   value |-> generate_property_with_economics(prop_type, economic_factors, s)] :
                     s \in DOMAIN samples}
        prices == {[sample |-> r.sample, count |-> r.count, value |-> r.value.price_per_unit] :
                     r \in props}
        rents == {[sample |-> r.sample, count |-> r.count, value |-> r.value.rent_per_unit] :
                     r \in props}
        cap_rates == {[sample |-> r.sample, count |-> r.count, value |-> cap_rate(r.value)] :
                     r \in props}
        inventories == {[sample |-> s, count |-> samples[s],
                         value |-> IF RLt(s.available_roll, Rat(3, 10)) THEN One ELSE Zero] :
                           s \in DOMAIN samples}
        doms == {[sample |-> s, count |-> samples[s], value |-> FromInt(s.dom)] :
                     s \in DOMAIN samples}
    IN  MarketSnapshot(prop_type, np_mean(prices), np_mean(rents), np_mean(cap_rates),
                       Trunc(np_sum(inventories)), np_mean(doms))

\* mutant of monthly_market_conditions: the mutation applied twice in one call
monthly_market_conditions_twice(mc, d) ==
    IF RLt(d.mutate_roll, Rat(1, 10))
    THEN update_market_conditions(update_market_conditions(mc, d), d)
    ELSE mc

\* if random.random() < 0.1: self._update_market_conditions(), lines 75-76
monthly_market_conditions(mc, d) ==
    IF RLt(d.mutate_roll, Rat(1, 10)) THEN update_market_conditions(mc, d) ELSE mc

\* mutant of monthly_economic_factors: the multipliers computed after the mutation
monthly_economic_factors_after_mutation(mc, current_month, d) ==
    get_economic_multipliers(monthly_market_conditions(mc, d), current_month, d.fluctuation)

\* economic_factors = self._get_economic_multipliers(current_month), line 72: the
\* conditions read are those before lines 75-76
monthly_economic_factors(mc, current_month, d) ==
    get_economic_multipliers(mc, current_month, d.fluctuation)

\* mutant of monthly_data: the lists are not emptied between the categories, so that
\* every snapshot is that of the first category's samples
monthly_data_first_lists(economic_factors, d) ==
    [i \in 1..Len(property_types) |->
        category_snapshot(property_types[i], economic_factors, d.pops[1])]

\* the list built by the category loop, lines 78-104
monthly_data(economic_factors, d) ==
    [i \in 1..Len(property_types) |->
        category_snapshot(property_types[i], economic_factors, d.pops[i])]

\* mutant of history_store: the history is rebuilt with the new month alone
history_store_alone(h, current_month, data) == [m \in {current_month} |-> data]

\* self.history[current_month] = monthly_data
history_store(h, current_month, data) ==
    [m \in DOMAIN h \cup {current_month} |-> IF m = current_month THEN data ELSE h[m]]

\* mutant of max_key: the least key
max_key_least(h) == CHOOSE m \in DOMAIN h : \A k \in DOMAIN h : m <= k

\* max(self.history.keys())
max_key(h) == CHOOSE m \in DOMAIN h : \A k \in DOMAIN h : k <= m

\* sorted(self.history.keys())
RECURSIVE sorted(_)
sorted(S) ==
    IF S = {} THEN << >>
    ELSE LET least == CHOOSE x \in S : \A y \in S : x <= y
         IN  <<least>> \o sorted(S \ {least})

None == [none |-> TRUE]

\* mutant of calculate_market_temperature: the thresholds taken inclusive
calculate_market_temperature_inclusive(snapshot) ==
    LET dom == snapshot.days_on_market
        inventory == snapshot.inventory
    IN  IF RLe(dom, FromInt(30)) /\ inventory <= 10 THEN "Hot Market"
        ELSE IF RLe(FromInt(60), dom) /\ inventory >= 25 THEN "Cold Market"
        ELSE "Balanced Market"

\* MarketAnalytics._calculate_market_temperature
calculate_market_temperature(snapshot) ==
    LET dom == snapshot.days_on_market
        inventory == snapshot.inventory
    IN  IF RLt(dom, FromInt(30)) /\ inventory < 10 THEN "Hot Market"
        ELSE IF RLt(FromInt(60), dom) /\ inventory > 25 THEN "Cold Market"
        ELSE "Balanced Market"

\* snapshot.temperature = ...: the attribute is set on the object itself
set_temperature(snapshot, temperature) ==
    [f \in DOMAIN snapshot \cup {"temperature"} |->
        IF f = "temperature" THEN temperature ELSE snapshot[f]]

\* the list get_latest_market_data returns (lines 153-163)
latest_market_data(h) ==
    IF DOMAIN h = {} THEN << >>
    ELSE LET data == h[max_key(h)]
         IN  [i \in 1..Len(data) |->
                set_temperature(data[i], calculate_market_temperature(data[i]))]

\* mutant of history_after_latest: the months before the latest are dropped
history_after_latest_alone(h) ==
    IF DOMAIN h = {} THEN h
    ELSE [m \in {max_key(h)} |-> latest_market_data(h)]

\* self.history after get_latest_market_data: data is the stored list, not a copy
history_after_latest(h) ==
    IF DOMAIN h = {} THEN h
    ELSE [m \in DOMAIN h |-> IF m = max_key(h) THEN latest_market_data(h) ELSE h[m]]

\* mutant of first_of_type: the first snapshot stands in when none matches
first_of_type_or_first(snapshots, property_type) ==
    LET hits == {i \in 1..Len(snapshots) : snapshots[i].property_type = property_type}
    IN  IF hits = {} THEN snapshots[1]
        ELSE snapshots[CHOOSE i \in hits : \A j \in hits : i <= j]

\* next((x for x in snapshots if x.property_type == property_type), None)
first_of_type(snapshots, property_type) ==
    LET hits == {i \in 1..Len(snapshots) : snapshots[i].property_type = property_type}
    IN  IF hits = {} THEN None
        ELSE snapshots[CHOOSE i \in hits : \A j \in hits : i <= j]

\* ((b - a) / a) * 100 on avg_price_per_unit
price_change_pct(a, b) ==
    RMul(RDiv(RSub(b.avg_price_per_unit, a.avg_price_per_unit), a.avg_price_per_unit), FromInt(100))

\* mutant of momentum: the two weights exchanged
momentum_swapped(price_change, prev_change) ==
    RAdd(RMul(price_change, Rat(3, 10)), RMul(prev_change, Rat(7, 10)))

\* price_change * 0.7 + prev_change * 0.3
momentum(price_change, prev_change) ==
    RAdd(RMul(price_change, Rat(7, 10)), RMul(prev_change, Rat(3, 10)))

\* mutant of get_market_trend: 0.0 when the third month has no snapshot of the type
get_market_trend_zero_without_older(h, property_type) ==
    IF Cardinality(DOMAIN h) < 2 THEN Zero
    ELSE LET months == sorted(DOMAIN h)
             current == first_of_type(h[months[Len(months)]], property_type)
             previous == first_of_type(h[months[Len(months) - 1]], property_type)
         IN  IF current = None \/ previous = None THEN Zero
             ELSE LET price_change == price_change_pct(previous, current)
                  IN  IF Cardinality(DOMAIN h) > 2
                      THEN LET older == first_of_type(h[months[Len(months) - 2]], property_type)
                           IN  IF older # None
                               THEN momentum(price_change, price_change_pct(older, previous))
                               ELSE Zero
                      ELSE price_change

\* MarketAnalytics.get_market_trend
get_market_trend(h, property_type) ==
    IF Cardinality(DOMAIN h) < 2 THEN Zero
    ELSE LET months == sorted(DOMAIN h)
             current == first_of_type(h[months[Len(months)]], property_type)
             previous == first_of_type(h[months[Len(months) - 1]], property_type)
         IN  IF current = None \/ previous = None THEN Zero
             ELSE LET price_change == price_change_pct(previous, current)
                  IN  IF Cardinality(DOMAIN h) > 2
                      THEN LET older == first_of_type(h[months[Len(months) - 2]], property_type)
                           IN  IF older # None
                               THEN momentum(price_change, price_change_pct(older, previous))
                               ELSE price_change
                      ELSE price_change

\* mutant of max_by_cap_rate: the last maximal element
max_by_cap_rate_last(latest) ==
    LET best == {i \in 1..Len(latest) :
                    \A j \in 1..Len(latest) : RLe(latest[j].avg_cap_rate, latest[i].avg_cap_rate)}
    IN  latest[CHOOSE i \in best : \A j \in best : j <= i]

\* max(latest, key=lambda x: x.avg_cap_rate): the first maximal element
max_by_cap_rate(latest) ==
    LET best == {i \in 1..Len(latest) :
                    \A j \in 1..Len(latest) : RLe(latest[j].avg_cap_rate, latest[i].avg_cap_rate)}
    IN  latest[CHOOSE i \in best : \A j \in best : i <= j]

\* MarketAnalytics.get_best_investment
best_investment(h) ==
    IF DOMAIN h = {} THEN None ELSE max_by_cap_rate(latest_market_data(h))

----------------------------------------------------------------------------
(* player.py: persistence of the market history                            *)

NoFile == [no_file |-> TRUE]

\* before a Player is constructed
NoPlayer == [no_player |-> TRUE]

\* str(month)
str(month) == ToString(month)

\* the "market_history" entry Player.save writes: snapshot.__dict__ per snapshot
save_market_history(h) ==
    [k \in {str(m) : m \in DOMAIN h} |->
        LET month == CHOOSE m \in DOMAIN h : str(m) = k
        IN  [i \in 1..Len(h[month]) |-> h[month][i]]]

\* Player.__init__ with the defaults: no property owned, none on offer
new_player(capital) ==
    [capital |-> FromInt(capital), properties |-> << >>, available_properties |-> << >>]

\* the data Player.save writes: the properties of both lists through to_dict, the
\* capital and the market history (name, difficulty, year and month are carried as they are)
save_data(heap, pl, h) ==
    [capital |-> pl.capital,
     properties |-> [i \in 1..Len(pl.properties) |-> to_dict(heap[pl.properties[i]])],
     available_properties |->
         [i \in 1..Len(pl.available_properties) |-> to_dict(heap[pl.available_properties[i]])],
     market_history |-> save_market_history(h)]

\* the draws Player.load makes on a file: one random.uniform(-0.05, 0.05) for each
\* Property it constructs, the ends and the middle
load_draws(file) ==
    IF file = NoFile THEN {<< >>}
    ELSE [1..(Len(file.properties) + Len(file.available_properties)) ->
             {Rat(-5, 100), Zero, Rat(5, 100)}]

\* load_properties(prop_list) in Player.load: a Property constructed of seven entries of
\* each dict; variations the draws of the constructor, from the one numbered first on
load_properties(prop_list, variations, first) ==
    [i \in 1..Len(prop_list) |->
        Property(prop_list[i].property_type, prop_list[i].address, prop_list[i].units,
                 prop_list[i].price_per_unit, prop_list[i].management_fee_percent,
                 prop_list[i].rent_per_unit, prop_list[i].maintenance_per_unit,
                 variations[first + i - 1])]

\* an exception leaving a call
Raised(exception) == [raised |-> exception]

\* the fields of the MarketSnapshot dataclass: none has a default
dataclass_fields ==
    {"property_type", "avg_price_per_unit", "avg_rent_per_unit", "avg_cap_rate",
     "inventory", "days_on_market"}

\* MarketSnapshot(**kwargs): the generated __init__ wants every field
MarketSnapshot_init(kwargs) ==
    IF dataclass_fields \subseteq DOMAIN kwargs THEN kwargs ELSE Raised("TypeError")

\* the keys Player.load reads of a saved snapshot
load_fields == {"property_type", "avg_price_per_unit", "avg_rent_per_unit", "avg_cap_rate"}

\* mutant of load_snapshot: the fields read with defaults, and kept as they are
load_snapshot_defaulting(s) ==
    [f \in dataclass_fields |-> IF f \in DOMAIN s THEN s[f] ELSE Zero]

\* MarketSnapshot(property_type=s["property_type"], ..., avg_cap_rate=s["avg_cap_rate"])
load_snapshot(s) ==
    IF load_fields \subseteq DOMAIN s
    THEN MarketSnapshot_init([f \in load_fields |-> s[f]])
    ELSE Raised("KeyError")

\* [MarketSnapshot(...) for s in snapshots]: the first exception ends the comprehension
load_snapshots(snapshots) ==
    LET loaded == [i \in 1..Len(snapshots) |-> load_snapshot(snapshots[i])]
        failed == {i \in 1..Len(snapshots) : "raised" \in DOMAIN loaded[i]}
    IN  IF failed = {} THEN [ok |-> TRUE, value |-> loaded]
        ELSE [ok |-> FALSE, raised |-> loaded[CHOOSE i \in failed : \A j \in failed : i <= j].raised]

\* int(month_str)
int(month_str) == CHOOSE m \in 0..99 : str(m) = month_str

\* the orders in which a dict of these keys can be iterated
dict_orders(keys) ==
    {o \in [1..Cardinality(keys) -> keys] : \A i, j \in 1..Cardinality(keys) : o[i] = o[j] => i = j}

\* for month_str, snapshots in data["market_history"].items(): ...; items the order of
\* the keys in the file
load_market_history(market_history, items) ==
    LET loaded == [k \in DOMAIN market_history |-> load_snapshots(market_history[k])]
        failed == {i \in 1..Len(items) : ~loaded[items[i]].ok}
    IN  IF failed = {}
        THEN [ok |-> TRUE,
              value |-> [m \in {int(k) : k \in DOMAIN market_history} |->
                            loaded[CHOOSE k \in DOMAIN market_history : int(k) = m].value]]
        ELSE [ok |-> FALSE, raised |-> loaded[items[CHOOSE i \in failed : \A j \in failed : i <= j]].raised]

\* the orders in which the months of the file can stand
file_orders(file) ==
    IF file = NoFile THEN {<< >>} ELSE dict_orders(DOMAIN file.market_history)

\* the exceptions Player.load catches
load_caught == {"JSONDecodeError", "ValueError", "KeyError"}

\* what Player.load returns, or raises, on the file: None without a file and on a
\* caught exception, the player otherwise
load_result(file, items, variations) ==
    IF file = NoFile THEN None
    ELSE LET loaded == load_market_history(file.market_history, items)
         IN  IF loaded.ok
             THEN [capital |-> file.capital,
                   properties |-> load_properties(file.properties, variations, 1),
                   available_properties |->
                       load_properties(file.available_properties, variations,
                                       Len(file.properties) + 1),
                   market |-> [history |-> loaded.value]]
             ELSE IF loaded.raised \in load_caught THEN None
             ELSE Raised(loaded.raised)

\* the file after Player.load: removed in the except clause
load_file(file, items) ==
    IF file = NoFile THEN NoFile
    ELSE LET loaded == load_market_history(file.market_history, items)
         IN  IF ~loaded.ok /\ loaded.raised \in load_caught THEN NoFile ELSE file

----------------------------------------------------------------------------
(* main.py: buying.  The lists of the game hold references to Property     *)
(* instances: a reference is the place of the instance in `properties`,    *)
(* and two instances with equal fields are two references (Property has no *)
(* __eq__, so `in` and list.remove compare identities).                    *)

\* x in list
list_contains(list, x) == \E i \in 1..Len(list) : list[i] = x

\* list.remove(x): the first occurrence is removed
list_remove(list, x) ==
    LET i == CHOOSE k \in 1..Len(list) : list[k] = x /\ \A j \in 1..(k - 1) : list[j] # x
    IN  SubSeq(list, 1, i - 1) \o SubSeq(list, i + 1, Len(list))

\* if x in list: list.remove(x)
remove_if_in(list, x) == IF list_contains(list, x) THEN list_remove(list, x) ELSE list

\* mutant of can_afford: the purchase is not guarded
can_afford_always(capital, property) == TRUE

\* self.player.capital >= property.total_price
can_afford(capital, property) == RLe(total_price(property), capital)

\* self.player after buy_property(property), lines 369-375
buy_property_player(heap, pl, property) ==
    IF can_afford(pl.capital, heap[property])
    THEN [capital |-> RSub(pl.capital, total_price(heap[property])),
          properties |-> Append(pl.properties, property),
          available_properties |-> remove_if_in(pl.available_properties, property)]
    ELSE pl

\* self.filtered_properties after buy_property(property), lines 376-377
buy_property_filtered(heap, pl, filtered, property) ==
    IF can_afford(pl.capital, heap[property])
    THEN remove_if_in(filtered, property)
    ELSE filtered

\* [p for p in self.player.available_properties if p.property_type == property_type]
filter_by_type(heap, list, property_type) ==
    LET of_type(r) == heap[r].property_type = property_type
    IN  SelectSeq(list, of_type)

----------------------------------------------------------------------------
(* The draws the specifications feed to the operations                     *)

MaxMonth == 4

Months == 1..MaxMonth

\* the draws of one sample: base price and rent, days on market, and the rolls deciding
\* "available" (< 0.3) and "distressed" (< 0.15)
SampleDraw(price, rent, dom, available_roll, distress_roll) ==
    [apartment_units |-> 10, complex_units |-> 16,
     price_per_unit |-> price, management_fee_percent |-> FromInt(6),
     rent_per_unit |-> rent, maintenance_per_unit |-> 500,
     price_noise |-> One, rent_noise |-> Rat(9, 10), variation |-> Rat(-5, 100),
     distress_roll |-> distress_roll, distress_price |-> Rat(7, 10), distress_rent |-> Rat(12, 10),
     available_roll |-> available_roll, dom |-> dom]

\* sample_size samples, `available` of them available: all draw the same property
Population(sample_size, available, price, rent, dom, distress_roll) ==
    LET a == SampleDraw(price, rent, dom, Rat(1, 4), distress_roll)
        u == SampleDraw(price, rent, dom, Rat(3, 10), distress_roll)
        S == (IF available > 0 THEN {a} ELSE {}) \cup (IF sample_size > available THEN {u} ELSE {})
    IN  [sample_size |-> sample_size,
         samples |-> [x \in S |-> IF x = a THEN available ELSE sample_size - available]]

\* category i draws the population at place i + offset of the palette
Rotate(palette, offset) ==
    [i \in 1..Len(property_types) |-> palette[((i + offset) % Len(palette)) + 1]]

\* the draws of one generate_monthly_samples call; id names the record
Draw(id, fluctuation, mutate_roll, rate_drift, unemployment_drift, trend_roll, trend_pick, pops) ==
    [id |-> id, fluctuation |-> fluctuation, mutate_roll |-> mutate_roll, rate_drift |-> rate_drift,
     unemployment_drift |-> unemployment_drift, trend_roll |-> trend_roll,
     trend_pick |-> trend_pick, pops |-> pops]

\* rates at their lower ends: a mutation that drifts down leaves them there
LowConditions == {init_market_conditions(2, Rat(25, 10), FromInt(3))}

----------------------------------------------------------------------------
(* Spec: the history and the queries.  Base prices are multiples of 20000  *)
(* and the fluctuation is 1, so that int() cuts nothing off and the trend  *)
(* percentages stay small fractions.  The mutation is drawn, and drifts    *)
(* down from the lower clamps, so that the conditions stay put and the     *)
(* histories stay few.                                                     *)

Palette ==
    <<Population(80, 0, 240000, 1200, 0, Rat(1, 2)),
      Population(120, 120, 200000, 2200, 90, Rat(1, 2)),
      Population(100, 9, 160000, 2000, 29, Rat(1, 10))>>

Draws ==
    {Draw(<<"Draws", 0>>, One, Rat(1, 20), Rat(-25, 100), Rat(-1, 2), Rat(2, 10), 0, Rotate(Palette, 0)),
     Draw(<<"Draws", 1>>, One, Rat(1, 10), Rat(-25, 100), Rat(-1, 2), Rat(2, 10), 0, Rotate(Palette, 1))}

\* the categories asked of get_market_trend: two of the engine and one it never stores
QueryTypes == {"Duplex", "Apartment Complex", "Condo"}

----------------------------------------------------------------------------
(* SpecMacro: the walk of the market conditions.  One month is advanced    *)
(* over and over; a mutation drifts both rates up or both down, by 0.25    *)
(* and 0.4, which from (2.5, 3.0) reaches both upper clamps after 30       *)
(* steps.                                                                  *)

MacroPops == Rotate(<<Population(80, 80, 200000, 2000, 45, Rat(1, 2))>>, 0)

MacroDraws ==
    {Draw(<<"MacroDraws", 0, 0>>, One, Rat(1, 10), Zero, Zero, Rat(1, 2), 0, MacroPops)}
    \cup {Draw(<<"MacroDraws", sign.id, trend.id>>, One, Rat(1, 20), sign.rate, sign.unemployment,
                trend.roll, trend.pick, MacroPops) :
            sign \in {[id |-> 1, rate |-> Rat(1, 4), unemployment |-> Rat(2, 5)],
                      [id |-> 2, rate |-> Rat(-1, 4), unemployment |-> Rat(-2, 5)]},
            trend \in {[id |-> 1, roll |-> Rat(2, 10), pick |-> 0],
                       [id |-> 2, roll |-> Rat(1, 10), pick |-> 0],
                       [id |-> 3, roll |-> Rat(1, 10), pick |-> 1]}}

MacroConditions ==
    {init_market_conditions(t, Rat(25, 10), FromInt(3)) : t \in 0..2}
    \cup {init_market_conditions(0, FromInt(5), FromInt(7))}

\* the conditions that walk reaches
MacroWalk ==
    {[trend |-> Trends[t],
      interest_rates |-> RAdd(Rat(25, 10), Rat(a, 4)),
      unemployment |-> RAdd(FromInt(3), Rat(2 * a, 5))] : t \in 1..3, a \in 0..30}

----------------------------------------------------------------------------
(* The snapshots of every (conditions, month, draws) the specifications    *)
(* can ask for, computed once: generated_data(mc, m, d) is                 *)
(* monthly_data(monthly_economic_factors(mc, m, d), d) by definition, and  *)
(* is read from this table where the table has it.                         *)

----------------------------------------------------------------------------
(* SpecTemp: the temperature label.  The populations put the inventory and *)
(* the mean days on market on both sides of, and on, each threshold.       *)

TempPopulation(sample_size, available, dom) ==
    Population(sample_size, available, 200000, 2000, dom, Rat(1, 2))

TempPalette ==
    <<TempPopulation(80, 9, 29), TempPopulation(80, 9, 30), TempPopulation(80, 10, 29),
      TempPopulation(120, 26, 61), TempPopulation(120, 25, 61), TempPopulation(120, 26, 60),
      TempPopulation(80, 0, 0), TempPopulation(120, 120, 90),
      TempPopulation(100, 9, 61), TempPopulation(100, 26, 29)>>

TempDraws ==
    {Draw(<<"TempDraws", o>>, One, Rat(1, 10), Zero, Zero, Rat(1, 2), 0, Rotate(TempPalette, o)) :
        o \in 0..(Len(TempPalette) - 1)}

TempMonths == {1, 2}

----------------------------------------------------------------------------
\* the months and fluctuations given to _get_economic_multipliers called alone
MaxSeasonMonth == 25

Fluctuations == {Rat(98, 100), One, Rat(102, 100)}

\* conditions a construction can draw: each rate at its ends and at its neutral value
MultiplierConditions ==
    {init_market_conditions(t, r, u) :
        t \in 0..2, r \in {Rat(5, 2), FromInt(4), Rat(15, 2)}, u \in {FromInt(3), FromInt(5), FromInt(10)}}

----------------------------------------------------------------------------
(* SpecBound: month 1 advanced with the conditions at their neutral values *)
(* (stable, 4.0, 5.0) and no mutation, the draws that set the price at     *)
(* their ends: base price 150000 or 250000, fluctuation 0.98 or 1.02,      *)
(* noise 0.95 or 1.05, and of the 80 samples none, 20 or all distressed,   *)
(* at 0.7 or 0.9.                                                          *)

NeutralConditions == {init_market_conditions(2, FromInt(4), FromInt(5))}

BoundSample(price, price_noise, distress_roll, distress_price) ==
    [apartment_units |-> 5, complex_units |-> 16,
     price_per_unit |-> price, management_fee_percent |-> FromInt(5),
     rent_per_unit |-> 2000, maintenance_per_unit |-> 200,
     price_noise |-> price_noise, rent_noise |-> One, variation |-> Zero,
     distress_roll |-> distress_roll, distress_price |-> distress_price, distress_rent |-> Rat(12, 10),
     available_roll |-> Rat(1, 2), dom |-> 45]

\* 80 samples of one base price and noise, `distressed` of them distressed
BoundPopulation(price, price_noise, distressed, distress_price) ==
    LET a == BoundSample(price, price_noise, Rat(1, 10), distress_price)
        u == BoundSample(price, price_noise, Rat(15, 100), distress_price)
        S == (IF distressed > 0 THEN {a} ELSE {}) \cup (IF distressed < 80 THEN {u} ELSE {})
    IN  [sample_size |-> 80,
         samples |-> [x \in S |-> IF x = a THEN distressed ELSE 80 - distressed]]

BoundDraws ==
    {Draw(<<"BoundDraws", f, price, noise, distressed, cut>>, Rat(f, 100), Rat(1, 10),
          Zero, Zero, Rat(1, 2), 0,
          [i \in 1..Len(property_types) |->
              BoundPopulation(price, Rat(noise, 100), distressed, Rat(cut, 10))]) :
        f \in {98, 102}, price \in {150000, 250000}, noise \in {95, 105},
        distressed \in {0, 20, 80}, cut \in {7, 9}}

AllDraws == Draws \cup MacroDraws \cup TempDraws \cup BoundDraws

Generated ==
    {<<mc, m, d.id>> : mc \in LowConditions, m \in Months, d \in Draws}
    \cup {<<mc, 1, d.id>> : mc \in MacroWalk, d \in MacroDraws}
    \cup {<<mc, m, d.id>> : mc \in LowConditions, m \in TempMonths, d \in TempDraws}
    \cup {<<mc, 1, <<"Draws", 1>>>> : mc \in MultiplierConditions}
    \cup {<<mc, 1, d.id>> : mc \in NeutralConditions, d \in BoundDraws}

\* the draws named id
draws_of(id) == CHOOSE d \in AllDraws : d.id = id

generated_table ==
    [x \in Generated |->
        monthly_data(monthly_economic_factors(x[1], x[2], draws_of(x[3])), draws_of(x[3]))]

\* lines 72 and 78-104 of generate_monthly_samples: the multipliers, then the category loop
generated_data(mc, current_month, d) ==
    IF <<mc, current_month, d.id>> \in Generated
    THEN generated_table[<<mc, current_month, d.id>>]
    ELSE monthly_data(monthly_economic_factors(mc, current_month, d), d)

----------------------------------------------------------------------------
(* The operations                                                          *)

\* MarketAnalytics.generate_monthly_samples(current_month), its draws in d
GenerateMonthlySamples(current_month, d) ==
    LET economic_factors == monthly_economic_factors(market_conditions, current_month, d)
        mutated == RLt(d.mutate_roll, Rat(1, 10))
        data == generated_data(market_conditions, current_month, d)
    IN  /\ market_conditions' = monthly_market_conditions(market_conditions, d)
        /\ history' = history_store(history, current_month, data)
        /\ ret' = data
        /\ called' = [name |-> "generate_monthly_samples",
                      current_month |-> current_month,
                      draws |-> d.id,
                      fluctuation |-> d.fluctuation,
                      mutated |-> mutated,
                      trend_branch |-> mutated /\ RLt(d.trend_roll, Rat(2, 10)),
                      economic_factors |-> economic_factors,
                      sample_sizes |-> [i \in 1..Len(property_types) |-> d.pops[i].sample_size]]
        /\ UNCHANGED <<save_file, properties, player, filtered_properties>>

\* MarketAnalytics.get_latest_market_data()
GetLatestMarketData ==
    /\ ret' = latest_market_data(history)
    /\ history' = history_after_latest(history)
    /\ called' = [name |-> "get_latest_market_data"]
    /\ UNCHANGED <<market_conditions, save_file, properties, player, filtered_properties>>

\* MarketAnalytics.get_market_trend(property_type)
GetMarketTrend(property_type) ==
    /\ ret' = get_market_trend(history, property_type)
    /\ called' = [name |-> "get_market_trend", property_type |-> property_type]
    /\ UNCHANGED <<market_conditions, history, save_file, properties, player, filtered_properties>>

\* MarketAnalytics.get_best_investment()
GetBestInvestment ==
    /\ ret' = best_investment(history)
    /\ history' = history_after_latest(history)
    /\ called' = [name |-> "get_best_investment"]
    /\ UNCHANGED <<market_conditions, save_file, properties, player, filtered_properties>>

\* Player.save(): the market history written to player_data.json
PlayerSave ==
    /\ player # NoPlayer
    /\ save_file' = save_data(properties, player, history)
    /\ ret' = None
    /\ called' = [name |-> "save"]
    /\ UNCHANGED <<market_conditions, history, properties, player, filtered_properties>>

\* Player.load(): the file read in the order items of its months
PlayerLoad ==
    \E items \in file_orders(save_file), variations \in load_draws(save_file) :
        /\ ret' = load_result(save_file, items, variations)
        /\ save_file' = load_file(save_file, items)
        /\ called' = [name |-> "load", file |-> save_file, variations |-> variations]
        /\ UNCHANGED <<market_conditions, history, properties, player, filtered_properties>>

\* MarketAnalytics._get_economic_multipliers(month), called alone
GetEconomicMultipliers(month, fluctuation) ==
    /\ ret' = get_economic_multipliers(market_conditions, month, fluctuation)
    /\ called' = [name |-> "_get_economic_multipliers", month |-> month,
                  fluctuation |-> fluctuation, seasonal |-> seasonal_factor(month)]
    /\ UNCHANGED <<market_conditions, history, save_file, properties, player, filtered_properties>>

\* generate_property(property_type): a new instance takes the place of the old
GenerateProperty(property_type, d) ==
    /\ properties' = <<generate_property(property_type, d)>>
    /\ ret' = properties'[1]
    /\ called' = [name |-> "generate_property", property_type |-> property_type]
    /\ UNCHANGED <<market_conditions, history, save_file, player, filtered_properties>>

\* the derived metrics of properties[self]: each reads the instance and assigns nothing
TotalPrice(self) ==
    /\ ret' = total_price(properties[self])
    /\ called' = [name |-> "total_price", self |-> self]
    /\ UNCHANGED <<market_conditions, history, save_file, properties, player, filtered_properties>>

GrossIncome(self) ==
    /\ ret' = gross_income(properties[self])
    /\ called' = [name |-> "gross_income", self |-> self]
    /\ UNCHANGED <<market_conditions, history, save_file, properties, player, filtered_properties>>

ManagementFee(self) ==
    /\ ret' = management_fee(properties[self])
    /\ called' = [name |-> "management_fee", self |-> self]
    /\ UNCHANGED <<market_conditions, history, save_file, properties, player, filtered_properties>>

TotalExpenses(self) ==
    /\ ret' = total_expenses(properties[self])
    /\ called' = [name |-> "total_expenses", self |-> self]
    /\ UNCHANGED <<market_conditions, history, save_file, properties, player, filtered_properties>>

NetIncome(self) ==
    /\ ret' = net_income(properties[self])
    /\ called' = [name |-> "net_income", self |-> self]
    /\ UNCHANGED <<market_conditions, history, save_file, properties, player, filtered_properties>>

CapRate(self) ==
    /\ ret' = cap_rate(properties[self])
    /\ called' = [name |-> "cap_rate", self |-> self]
    /\ UNCHANGED <<market_conditions, history, save_file, properties, player, filtered_properties>>

\* RealEstateGame.show_properties_of_type(property_type)
ShowPropertiesOfType(property_type) ==
    /\ filtered_properties' = filter_by_type(properties, player.available_properties, property_type)
    /\ ret' = None
    /\ called' = [name |-> "show_properties_of_type", property_type |-> property_type]
    /\ UNCHANGED <<market_conditions, history, save_file, properties, player>>

\* RealEstateGame.buy_property(property), from the Buy button of an available property:
\* setup_property_buttons makes one button per available property, at the start and
\* after each purchase
BuyProperty(property) ==
    /\ list_contains(player.available_properties, property)
    /\ player' = buy_property_player(properties, player, property)
    /\ filtered_properties' = buy_property_filtered(properties, player, filtered_properties, property)
    /\ ret' = None
    /\ called' = [name |-> "buy_property", property |-> property]
    /\ UNCHANGED <<market_conditions, history, save_file, properties>>

----------------------------------------------------------------------------
(* generate_monthly_samples step by step.  While the call runs, `called`   *)
(* is its frame: pc names the loop it stands in, i is the place of         *)
(* prop_type in property_types, lists says how many samples with which     *)
(* draws the lists of the category hold, monthly_data is the list built so *)
(* far.                                                                    *)

\* a generate_monthly_samples call has begun and not returned
Generating ==
    /\ called.name = "generate_monthly_samples"
    /\ "pc" \in DOMAIN called
    /\ called.pc # "return"

\* the number of samples the lists of the category hold
RECURSIVE appended(_, _)
appended(lists, S) ==
    IF S = {} THEN 0
    ELSE LET s == CHOOSE x \in S : TRUE
         IN  lists[s] + appended(lists, S \ {s})

\* mutant of range_has_next: one pass more than sample_size
range_has_next_inclusive(n, sample_size) == n <= sample_size

\* for _ in range(sample_size): another pass follows n passes
range_has_next(n, sample_size) == n < sample_size

\* the snapshots of the category loops of SpecLoop, computed once: the category, the
\* multipliers and the lists
LoopMonths == {1}

Aggregated ==
    {<<property_types[i], monthly_economic_factors(mc, m, d), d.pops[i]>> :
        mc \in LowConditions, m \in LoopMonths, d \in Draws, i \in 1..Len(property_types)}

aggregated_table == [x \in Aggregated |-> category_snapshot(x[1], x[2], x[3])]

\* lines 97-104: the snapshot of the lists of one category
aggregated_snapshot(prop_type, economic_factors, pop) ==
    IF <<prop_type, economic_factors, pop>> \in Aggregated
    THEN aggregated_table[<<prop_type, economic_factors, pop>>]
    ELSE category_snapshot(prop_type, economic_factors, pop)

\* lines 70-76: the empty list, the multipliers, the mutation
GenerateBegin(current_month, d) ==
    /\ ~Generating
    /\ market_conditions' = monthly_market_conditions(market_conditions, d)
    /\ called' = [name |-> "generate_monthly_samples", pc |-> "for prop_type",
                  current_month |-> current_month, draws |-> d.id,
                  economic_factors |-> monthly_economic_factors(market_conditions, current_month, d),
                  i |-> 1, monthly_data |-> << >>]
    /\ UNCHANGED <<history, save_file, ret, properties, player, filtered_properties>>

\* lines 78-87: the next prop_type, its empty lists and its sample_size
CategoryBegin ==
    /\ Generating
    /\ called.pc = "for prop_type"
    /\ called.i <= Len(property_types)
    /\ LET pop == draws_of(called.draws).pops[called.i]
       IN  called' = [f \in DOMAIN called \cup {"sample_size", "lists"} |->
                        IF f = "pc" THEN "for _"
                        ELSE IF f = "sample_size" THEN pop.sample_size
                        ELSE IF f = "lists" THEN [s \in DOMAIN pop.samples |-> 0]
                        ELSE called[f]]
    /\ UNCHANGED <<market_conditions, history, save_file, ret, properties, player, filtered_properties>>

\* lines 88-95: one sample, with draws s, appended to the lists
SampleStep ==
    /\ Generating
    /\ called.pc = "for _"
    /\ range_has_next(appended(called.lists, DOMAIN called.lists), called.sample_size)
    /\ \E s \in DOMAIN called.lists :
          /\ called.lists[s] < draws_of(called.draws).pops[called.i].samples[s]
          /\ called' = [called EXCEPT !.lists[s] = @ + 1]
    /\ UNCHANGED <<market_conditions, history, save_file, ret, properties, player, filtered_properties>>

\* lines 97-104: the snapshot of the lists appended to monthly_data
CategoryEnd ==
    /\ Generating
    /\ called.pc = "for _"
    /\ ~range_has_next(appended(called.lists, DOMAIN called.lists), called.sample_size)
    /\ called' = [called EXCEPT
                    !.pc = "for prop_type",
                    !.i = @ + 1,
                    !.monthly_data = Append(@, aggregated_snapshot(property_types[called.i],
                                         called.economic_factors,
                                         [sample_size |-> called.sample_size, samples |-> called.lists]))]
    /\ UNCHANGED <<market_conditions, history, save_file, ret, properties, player, filtered_properties>>

\* lines 106-107: the list stored under current_month and returned
GenerateReturn ==
    /\ Generating
    /\ called.pc = "for prop_type"
    /\ called.i > Len(property_types)
    /\ called' = [called EXCEPT !.pc = "return"]
    /\ history' = history_store(history, called.current_month, called.monthly_data)
    /\ ret' = called.monthly_data
    /\ UNCHANGED <<market_conditions, save_file, properties, player, filtered_properties>>

----------------------------------------------------------------------------
(* The specifications                                                      *)

\* MarketAnalytics.__init__, alone (pl = NoPlayer) or in Player.__init__
ConstructedIn(conditions, pl) ==
    /\ market_conditions \in conditions
    /\ history = [m \in {} |-> << >>]
    /\ save_file = NoFile
    /\ called = [name |-> "__init__"]
    /\ ret = None
    /\ properties = << >>
    /\ player = pl
    /\ filtered_properties = << >>

Constructed(conditions) == ConstructedIn(conditions, NoPlayer)

Init == Constructed(LowConditions)

Next ==
    \/ \E m \in Months, d \in Draws : GenerateMonthlySamples(m, d)
    \/ GetLatestMarketData
    \/ \E t \in QueryTypes : GetMarketTrend(t)
    \/ GetBestInvestment

Spec == Init /\ [][Next]_vars

InitMacro == Constructed(MacroConditions)

NextMacro ==
    \/ \E d \in MacroDraws : GenerateMonthlySamples(1, d)
    \/ GetLatestMarketData
    \/ GetMarketTrend("Duplex")
    \/ GetBestInvestment

SpecMacro == InitMacro /\ [][NextMacro]_vars

NextTemp ==
    \/ \E m \in TempMonths, d \in TempDraws : GenerateMonthlySamples(m, d)
    \/ GetLatestMarketData
    \/ GetMarketTrend("Duplex")
    \/ GetBestInvestment

SpecTemp == Init /\ [][NextTemp]_vars

\* SpecPersist: the engine of a player, advanced, queried and saved
PersistMonths == {1, 2}

InitPersist == ConstructedIn(LowConditions, new_player(2500000))

NextPersist ==
    \/ \E m \in PersistMonths, d \in Draws : GenerateMonthlySamples(m, d)
    \/ GetLatestMarketData
    \/ GetBestInvestment
    \/ PlayerSave

SpecPersist == InitPersist /\ [][NextPersist]_vars

\* SpecLoad: saving and loading.  The file on disk at the start is none, or a file
\* some earlier run saved, whole or with one field of one snapshot missing.

\* the file with field f of snapshot i of month k removed
without_field(file, k, i, f) ==
    [file EXCEPT !.market_history =
        [x \in DOMAIN file.market_history |->
            [j \in 1..Len(file.market_history[x]) |->
                IF x = k /\ j = i
                THEN [g \in DOMAIN file.market_history[x][j] \ {f} |-> file.market_history[x][j][g]]
                ELSE file.market_history[x][j]]]]

\* the five snapshots of a month as an earlier session stored them
saved_snapshots(price) ==
    [i \in 1..Len(property_types) |->
        MarketSnapshot(property_types[i], FromInt(price), FromInt(1500), FromInt(6), 24, FromInt(45))]

\* the files an earlier session saved: month 1 alone, and months 1 and 2
SavedFiles ==
    {save_data(<< >>, new_player(2500000), [m \in {1} |-> saved_snapshots(200000)]),
     save_data(<< >>, new_player(2500000), [m \in {1, 2} |-> saved_snapshots(200000 + 10000 * m)])}

LoadFiles ==
    {NoFile} \cup SavedFiles
    \cup {without_field(file, k, i, f) :
             file \in SavedFiles, k \in {"1", "2"}, i \in {1, 3}, f \in dataclass_fields}

InitLoad ==
    /\ market_conditions \in LowConditions
    /\ history = [m \in {} |-> << >>]
    /\ save_file \in LoadFiles
    /\ called = [name |-> "__init__"]
    /\ ret = None
    /\ properties = << >>
    /\ player = new_player(2500000)
    /\ filtered_properties = << >>

NextLoad ==
    \/ PlayerLoad
    \/ PlayerSave
    \/ \E m \in PersistMonths, d \in Draws : GenerateMonthlySamples(m, d)
    \/ GetLatestMarketData

SpecLoad == InitLoad /\ [][NextLoad]_vars

\* SpecProperty: one Property instance, made by the constructor from given arguments
\* or by generate_property, and its derived metrics evaluated in any order.
PropertyInputs ==
    {Property("Duplex", "1 Main St", units, FromInt(price), FromInt(6), FromInt(rent), 500, variation) :
        units \in {0, 2}, price \in {0, 150000, 250000}, rent \in {1200, 2200},
        variation \in {Rat(-5, 100), Zero, Rat(5, 100)}}

PropertyDraws ==
    {[address |-> "1 Main St", apartment_units |-> 5, complex_units |-> 150,
      price_per_unit |-> price, management_fee_percent |-> Rat(13, 2),
      rent_per_unit |-> 1700, maintenance_per_unit |-> 200, variation |-> variation,
      underperform_roll |-> roll, rent_cut |-> Rat(7, 10), price_rise |-> Rat(13, 10)] :
        price \in {150000, 250000}, variation \in {Rat(-5, 100), Rat(1, 100)},
        roll \in {Rat(1, 10), Rat(3, 10)}}

PropertyTypes == {"Duplex", "Apartment Complex", "Condo"}

InitProperty ==
    /\ market_conditions \in LowConditions
    /\ history = [m \in {} |-> << >>]
    /\ save_file = NoFile
    /\ called = [name |-> "Property"]
    /\ ret = None
    /\ properties \in {<<p>> : p \in PropertyInputs}
    /\ player = NoPlayer
    /\ filtered_properties = << >>

NextProperty ==
    \/ \E t \in PropertyTypes, d \in PropertyDraws : GenerateProperty(t, d)
    \/ TotalPrice(1)
    \/ GrossIncome(1)
    \/ ManagementFee(1)
    \/ TotalExpenses(1)
    \/ NetIncome(1)
    \/ CapRate(1)

SpecProperty == InitProperty /\ [][NextProperty]_vars

\* SpecMultipliers: the multipliers derived for any month and fluctuation, before and
\* after a month was advanced without mutation
InitMultipliers == Constructed(MultiplierConditions)

NextMultipliers ==
    \/ \E m \in 1..MaxSeasonMonth, f \in Fluctuations : GetEconomicMultipliers(m, f)
    \/ GenerateMonthlySamples(1, draws_of(<<"Draws", 1>>))

SpecMultipliers == InitMultipliers /\ [][NextMultipliers]_vars

\* SpecBound: month 1 advanced from the neutral conditions, and queried
InitBound == Constructed(NeutralConditions)

NextBound ==
    \/ \E d \in BoundDraws : GenerateMonthlySamples(1, d)
    \/ GetLatestMarketData
    \/ GetBestInvestment

SpecBound == InitBound /\ [][NextBound]_vars

\* SpecTrend: get_market_trend asked of the histories a MarketAnalytics can hold after
\* Player.load and advances: a month loaded from a file with an empty list has no
\* snapshot, a month advanced has its five, at one of three price levels.
TrendMonths == 1..4

TrendHistories ==
    UNION {[M -> {<< >>} \cup {saved_snapshots(price) : price \in {200000, 220000, 260000}}] :
              M \in SUBSET TrendMonths}

InitTrend ==
    /\ market_conditions \in LowConditions
    /\ history \in TrendHistories
    /\ save_file = NoFile
    /\ called = [name |-> "MarketAnalytics"]
    /\ ret = None
    /\ properties = << >>
    /\ player = NoPlayer
    /\ filtered_properties = << >>

NextTrend == \E t \in QueryTypes : GetMarketTrend(t)

SpecTrend == InitTrend /\ [][NextTrend]_vars

\* SpecBuy: a new player with the capital of one of the three difficulties and five
\* properties on offer, two of them with equal fields; the player looks at the
\* properties of a type and buys.
BuyProperties ==
    <<Property("Duplex", "0001 Oak St", 2, FromInt(200000), FromInt(6), FromInt(1500), 500, Zero),
      Property("Duplex", "0001 Oak St", 2, FromInt(200000), FromInt(6), FromInt(1500), 500, Zero),
      Property("Triplex", "0002 Elm Ave", 3, FromInt(200000), FromInt(6), FromInt(1500), 500, Zero),
      Property("Fourplex", "0003 Pine Rd", 4, RMul(FromInt(250000), Rat(13, 10)), FromInt(6), FromInt(1500), 500, Zero),
      Property("Apartment Complex", "0004 Lake Dr", 16, FromInt(150000), FromInt(6), FromInt(1500), 500, Zero)>>

Capitals == {5000000, 2500000, 1000000}

InitBuy ==
    /\ market_conditions \in LowConditions
    /\ history = [m \in {} |-> << >>]
    /\ save_file = NoFile
    /\ called = [name |-> "initialize_player"]
    /\ ret = None
    /\ properties = BuyProperties
    /\ \E capital \in Capitals :
          player = [capital |-> FromInt(capital), properties |-> << >>,
                    available_properties |-> [i \in 1..Len(BuyProperties) |-> i]]
    /\ filtered_properties = << >>

NextBuy ==
    \/ \E property \in 1..Len(BuyProperties) : BuyProperty(property)
    \/ \E t \in {"Duplex", "Triplex", "Apartment Complex"} : ShowPropertiesOfType(t)

SpecBuy == InitBuy /\ [][NextBuy]_vars

\* the properties of a month on offer, their expense ratios drawn apart
ReloadProperties ==
    <<Property("Duplex", "0001 Oak St", 2, FromInt(200000), FromInt(6), FromInt(1500), 500, Rat(-5, 100)),
      Property("Triplex", "0002 Elm Ave", 3, FromInt(200000), FromInt(6), FromInt(1500), 500, Rat(2, 100)),
      Property("Fourplex", "0003 Pine Rd", 4, FromInt(250000), FromInt(6), FromInt(1800), 500, Rat(5, 100))>>

InitReload ==
    /\ market_conditions \in LowConditions
    /\ history = [m \in {} |-> << >>]
    /\ save_file = NoFile
    /\ called = [name |-> "initialize_player"]
    /\ ret = None
    /\ properties = ReloadProperties
    /\ \E capital \in Capitals :
          player = [capital |-> FromInt(capital), properties |-> << >>,
                    available_properties |-> [i \in 1..Len(ReloadProperties) |-> i]]
    /\ filtered_properties = << >>

NextReload ==
    \/ PlayerLoad
    \/ PlayerSave
    \/ \E property \in 1..Len(ReloadProperties) : BuyProperty(property)

SpecReload == InitReload /\ [][NextReload]_vars

\* SpecLoop: month 1 advanced over and over, each call taken step by step.  A call
\* that has begun keeps running: its steps are weakly fair; that another call
\* begins is up to the caller.
GenerateStep ==
    \/ CategoryBegin
    \/ SampleStep
    \/ CategoryEnd
    \/ GenerateReturn

\* RealEstateGame.__init__: a MarketAnalytics constructed and month 1 generated at once
InitLoop ==
    \E mc \in LowConditions :
        LET d == draws_of(<<"Draws", 1>>)
        IN  /\ market_conditions = monthly_market_conditions(mc, d)
            /\ history = history_store([m \in {} |-> << >>], 1, generated_data(mc, 1, d))
            /\ save_file = NoFile
            /\ called = [name |-> "RealEstateGame"]
            /\ ret = generated_data(mc, 1, d)
            /\ properties = << >>
            /\ player = NoPlayer
            /\ filtered_properties = << >>

NextLoop ==
    \/ \E m \in LoopMonths, d \in Draws : GenerateBegin(m, d)
    \/ GenerateStep

SpecLoop == InitLoop /\ [][NextLoop]_vars /\ WF_called(GenerateStep)

----------------------------------------------------------------------------
(* The claims                                                              *)

\* C1 (as stated): when a generate_monthly_samples call takes the mutation, the
\* multipliers it used are those of the conditions after the mutation.
C1_FactorsOfMutatedConditions ==
    [][(called'.name = "generate_monthly_samples" /\ called'.mutated) =>
          called'.economic_factors =
              get_economic_multipliers(market_conditions', called'.current_month,
                                       called'.fluctuation)]_vars

\* C1 (amended): the multipliers a generate_monthly_samples call uses, and the samples
\* made with them, are those of the conditions before the call, mutation or not.
C1_FactorsOfConditionsBeforeMutation ==
    [][called'.name = "generate_monthly_samples" =>
          /\ called'.economic_factors =
                get_economic_multipliers(market_conditions, called'.current_month,
                                         called'.fluctuation)
          /\ ret'[1] = category_snapshot(property_types[1], called'.economic_factors,
                                         draws_of(called'.draws).pops[1])]_vars

\* a call whose mutation changed the multipliers of its month
C1_Witness ==
    /\ called.name = "generate_monthly_samples"
    /\ called.mutated
    /\ called.economic_factors #
          get_economic_multipliers(market_conditions, called.current_month, called.fluctuation)

\* C2: generate_monthly_samples returns five snapshots, one per category in the fixed
\* order, each with inventory in [0, sample_size], sample_size in [80, 120] and
\* days_on_market in [0, 90].
C2_FiveSnapshotsInRange ==
    called.name = "generate_monthly_samples" =>
        /\ Len(ret) = 5
        /\ \A i \in 1..5 :
              /\ ret[i].property_type =
                    <<"Duplex", "Triplex", "Fourplex", "Apartment", "Apartment Complex">>[i]
              /\ called.sample_sizes[i] \in 80..120
              /\ ret[i].inventory \in 0..called.sample_sizes[i]
              /\ 0 <= ret[i].days_on_market.n
              /\ ret[i].days_on_market.n <= 90 * ret[i].days_on_market.d

\* a call in which one category sold out at 90 days and another had nothing at 0 days
C2_Witness ==
    /\ called.name = "generate_monthly_samples"
    /\ \E i, j \in 1..5 :
          /\ ret[i].inventory = called.sample_sizes[i] /\ ret[i].days_on_market = FromInt(90)
          /\ ret[j].inventory = 0 /\ ret[j].days_on_market = Zero

\* C3: after generate_monthly_samples(m) the history holds the returned list under m,
\* its keys are the old keys and m, and every other month's entry is as it was.
C3_HistoryHoldsReturnedList ==
    [][called'.name = "generate_monthly_samples" =>
          LET m == called'.current_month
          IN  /\ history'[m] = ret'
              /\ DOMAIN history' = DOMAIN history \cup {m}
              /\ \A k \in DOMAIN history \ {m} : history'[k] = history[k]]_vars

\* a call made while another month, already labelled by a query, was in the history
C3_Witness ==
    /\ called.name = "generate_monthly_samples"
    /\ \E k \in DOMAIN history \ {called.current_month} :
          "temperature" \in DOMAIN history[k][1]

\* C4: the trend is bull, bear or stable, the interest rate is in [2.5, 10.0] and the
\* unemployment in [3.0, 15.0]; after construction they are in [2.5, 7.5] and [3.0, 10.0].
C4_ConditionsInRange ==
    LET rate == market_conditions.interest_rates
        unemployment == market_conditions.unemployment
    IN  /\ market_conditions.trend \in {"bull", "bear", "stable"}
        /\ 5 * rate.d <= 2 * rate.n /\ rate.n <= 10 * rate.d
        /\ 3 * unemployment.d <= unemployment.n /\ unemployment.n <= 15 * unemployment.d
        /\ called.name = "__init__" =>
              /\ 2 * rate.n <= 15 * rate.d
              /\ unemployment.n <= 10 * unemployment.d

\* a mutation that drifted up and left both rates at their upper clamps
C4_Witness ==
    /\ called.name = "generate_monthly_samples"
    /\ called.mutated
    /\ called.draws[2] = 1
    /\ market_conditions.interest_rates = FromInt(10)
    /\ market_conditions.unemployment = FromInt(15)

\* C5: in a mutation, the trend changes to one of the two other values when the 20%
\* branch is taken, and stays when it is not.
C5_TrendLeavesOrStays ==
    [][(called'.name = "generate_monthly_samples" /\ called'.mutated) =>
          IF called'.trend_branch
          THEN /\ market_conditions'.trend \in {"bull", "bear", "stable"}
               /\ market_conditions'.trend # market_conditions.trend
          ELSE market_conditions'.trend = market_conditions.trend]_vars

\* a mutation that took the trend branch
C5_Witness ==
    /\ called.name = "generate_monthly_samples"
    /\ called.mutated
    /\ called.trend_branch

\* C6: get_latest_market_data returns the empty list on an empty history, and
\* otherwise the list stored under the greatest month.
C6_LatestIsGreatestMonth ==
    called.name = "get_latest_market_data" =>
        IF DOMAIN history = {} THEN ret = << >>
        ELSE \E m \in DOMAIN history :
                /\ \A k \in DOMAIN history : k <= m
                /\ ret = history[m]

\* a latest query on a history of several months with different entries
C6_Witness ==
    /\ called.name = "get_latest_market_data"
    /\ Cardinality(DOMAIN history) >= 3
    /\ \E k \in DOMAIN history : \A i \in 1..5 : ret[i].inventory # history[k][i].inventory

\* C7: the label on a snapshot returned by the latest query is hot exactly when
\* days_on_market < 30 and inventory < 10, cold exactly when days_on_market > 60 and
\* inventory > 25, and balanced otherwise.
C7_TemperatureLabel ==
    called.name = "get_latest_market_data" =>
        \A i \in 1..Len(ret) :
            LET dom == ret[i].days_on_market
                hot == dom.n < 30 * dom.d /\ ret[i].inventory < 10
                cold == dom.n > 60 * dom.d /\ ret[i].inventory > 25
            IN  /\ (ret[i].temperature = "Hot Market") <=> hot
                /\ (ret[i].temperature = "Cold Market") <=> cold
                /\ (ret[i].temperature = "Balanced Market") <=> (~hot /\ ~cold)

\* a latest query returning a hot, a cold and three balanced snapshots that sit on the
\* thresholds 30, 10 and 25
C7_Witness ==
    /\ called.name = "get_latest_market_data"
    /\ Len(ret) = 5
    /\ \E a, b, c, d, e \in 1..5 :
          /\ ret[a].temperature = "Hot Market"
          /\ ret[b].temperature = "Cold Market"
          /\ ret[c].days_on_market = FromInt(30) /\ ret[c].inventory = 9
                /\ ret[c].temperature = "Balanced Market"
          /\ ret[d].days_on_market = FromInt(29) /\ ret[d].inventory = 10
                /\ ret[d].temperature = "Balanced Market"
          /\ ret[e].days_on_market = FromInt(61) /\ ret[e].inventory = 25
                /\ ret[e].temperature = "Balanced Market"

\* C8 (as stated): no snapshot stored in the history carries a temperature, and the
\* history Player.save exports has no temperature field.
C8_TemperatureNotStored ==
    /\ \A m \in DOMAIN history : \A i \in 1..Len(history[m]) :
          "temperature" \notin DOMAIN history[m][i]
    /\ save_file # NoFile =>
          \A k \in DOMAIN save_file.market_history :
              \A i \in 1..Len(save_file.market_history[k]) :
                  "temperature" \notin DOMAIN save_file.market_history[k][i]

\* C9: get_market_trend returns 0.0 when the history has fewer than two months, and
\* when either of the two greatest months has no snapshot of the category.
C9_TrendZero ==
    called.name = "get_market_trend" =>
        LET months == DOMAIN history
            has(m) == \E i \in 1..Len(history[m]) :
                          history[m][i].property_type = called.property_type
            greatest == CHOOSE m \in months : \A k \in months : k <= m
            second == CHOOSE m \in months \ {greatest} :
                          \A k \in months \ {greatest} : k <= m
        IN  (Cardinality(months) < 2 \/ ~has(greatest) \/ ~has(second)) => ret = Zero

\* a trend query for a category the two greatest months do not hold
C9_Witness ==
    /\ called.name = "get_market_trend"
    /\ called.property_type = "Condo"
    /\ Cardinality(DOMAIN history) >= 2
    /\ ret = Zero

\* C10: with the category in the three greatest months m1 < m2 < m3, get_market_trend
\* returns 0.7 * pct(m2 -> m3) + 0.3 * pct(m1 -> m2); with two months it returns
\* pct(m1 -> m2); older months do not count.
C10_TrendBlend ==
    called.name = "get_market_trend" =>
        LET months == DOMAIN history
            price(m) == (CHOOSE x \in {history[m][i] : i \in 1..Len(history[m])} :
                            x.property_type = called.property_type).avg_price_per_unit
            pct(a, b) == RMul(RDiv(RSub(price(b), price(a)), price(a)), FromInt(100))
            m3 == CHOOSE m \in months : \A k \in months : k <= m
            m2 == CHOOSE m \in months \ {m3} : \A k \in months \ {m3} : k <= m
            m1 == CHOOSE m \in months \ {m3, m2} : \A k \in months \ {m3, m2} : k <= m
        IN  called.property_type \in {property_types[i] : i \in 1..Len(property_types)} =>
              /\ Cardinality(months) = 2 => ret = pct(m2, m3)
              /\ Cardinality(months) >= 3 =>
                    ret = RAdd(RMul(Rat(7, 10), pct(m2, m3)), RMul(Rat(3, 10), pct(m1, m2)))

\* a trend query on four months in which the blend differs from the plain change
C10_Witness ==
    /\ called.name = "get_market_trend"
    /\ called.property_type = "Duplex"
    /\ Cardinality(DOMAIN history) = 4
    /\ ret # Zero
    /\ ret # price_change_pct(history[3][1], history[4][1])

\* C11: get_best_investment returns None on an empty history, and otherwise the
\* snapshot of the greatest month with the greatest avg_cap_rate, the first in category
\* order among those that tie.
C11_BestIsFirstMaximum ==
    called.name = "get_best_investment" =>
        IF DOMAIN history = {} THEN ret = None
        ELSE LET latest == history[CHOOSE m \in DOMAIN history : \A k \in DOMAIN history : k <= m]
                 order == <<"Duplex", "Triplex", "Fourplex", "Apartment", "Apartment Complex">>
             IN  \E i \in 1..Len(latest) :
                    /\ ret = latest[i]
                    /\ ret.property_type = order[i]
                    /\ \A j \in 1..Len(latest) : RLe(latest[j].avg_cap_rate, ret.avg_cap_rate)
                    /\ \A j \in 1..(i - 1) : latest[j].avg_cap_rate # ret.avg_cap_rate

\* a best-investment query whose answer ties with a later category
C11_Witness ==
    /\ called.name = "get_best_investment"
    /\ DOMAIN history # {}
    /\ LET latest == history[CHOOSE m \in DOMAIN history : \A k \in DOMAIN history : k <= m]
       IN  \E i, j \in 1..Len(latest) :
              /\ i < j
              /\ ret = latest[i]
              /\ latest[j].avg_cap_rate = ret.avg_cap_rate

\* C12 (as stated): loading the file that save wrote of the history returns a player
\* whose market history has the same months and, month by month, the same snapshots.
C12_HistoryRoundTrips ==
    (/\ called.name = "load"
     /\ called.file # NoFile
     /\ called.file.market_history = save_market_history(history)) =>
        /\ "market" \in DOMAIN ret
        /\ DOMAIN ret.market.history = DOMAIN history
        /\ \A m \in DOMAIN history :
              /\ Len(ret.market.history[m]) = Len(history[m])
              /\ \A i \in 1..Len(history[m]) : \A f \in dataclass_fields :
                    /\ f \in DOMAIN ret.market.history[m][i]
                    /\ ret.market.history[m][i][f] = history[m][i][f]

\* C13: loading a file in which a snapshot lacks a field ends in an error outcome (None
\* with the file removed, or an exception), and no player that load returns holds a
\* snapshot with a field absent.
C13_LoadFailsOnMissingField ==
    called.name = "load" =>
        /\ (/\ called.file # NoFile
            /\ \E k \in DOMAIN called.file.market_history :
                  \E i \in 1..Len(called.file.market_history[k]) :
                      ~(dataclass_fields \subseteq DOMAIN called.file.market_history[k][i]))
              => (ret = None \/ "raised" \in DOMAIN ret)
        /\ "market" \in DOMAIN ret =>
              \A m \in DOMAIN ret.market.history : \A i \in 1..Len(ret.market.history[m]) :
                  dataclass_fields \subseteq DOMAIN ret.market.history[m][i]

\* a load of a file whose first snapshot lacked its average price: None, the file removed
C13_Witness ==
    /\ called.name = "load"
    /\ called.file # NoFile
    /\ \E k \in DOMAIN called.file.market_history :
          "avg_price_per_unit" \notin DOMAIN called.file.market_history[k][1]
    /\ ret = None
    /\ save_file = NoFile

\* C15: cap_rate is 0 when units x price_per_unit is 0 and net_income / total_price x 100
\* otherwise; it never ends in a division by zero.
C15_CapRate ==
    called.name = "cap_rate" =>
        LET p == properties[called.self]
            total == RMul(FromInt(p.units), p.price_per_unit)
            gross == RMul(FromInt(p.units * 12), p.rent_per_unit)
            net == RSub(gross, RMul(gross, p.expense_ratio))
        IN  /\ "raised" \notin DOMAIN ret
            /\ IF total.n = 0 THEN ret = Zero
               ELSE ret = RMul(RDiv(net, total), FromInt(100))

\* a cap rate asked of a property whose total price is 0 although it earns rent
C15_Witness ==
    /\ called.name = "cap_rate"
    /\ properties[called.self].units > 0
    /\ properties[called.self].price_per_unit = Zero
    /\ ret = Zero

\* C16: total_price = units x price_per_unit, gross_income = units x rent_per_unit x 12,
\* management_fee = gross_income x management_fee_percent / 100, total_expenses =
\* gross_income x expense ratio, net_income = gross_income - total_expenses.
C16_DerivedMetrics ==
    called.name \in {"total_price", "gross_income", "management_fee", "total_expenses", "net_income"} =>
        LET p == properties[called.self]
            gross == RMul(FromInt(p.units * 12), p.rent_per_unit)
        IN  /\ called.name = "total_price" => ret = RMul(FromInt(p.units), p.price_per_unit)
            /\ called.name = "gross_income" => ret = gross
            /\ called.name = "management_fee" =>
                  ret = RDiv(RMul(gross, p.management_fee_percent), FromInt(100))
            /\ called.name = "total_expenses" => ret = RMul(gross, p.expense_ratio)
            /\ called.name = "net_income" => ret = RSub(gross, RMul(gross, p.expense_ratio))

\* a net income asked of a property that has a management fee and a maintenance cost
C16_Witness ==
    /\ called.name = "net_income"
    /\ properties[called.self].units > 0
    /\ properties[called.self].maintenance_per_unit > 0
    /\ RLt(Zero, management_fee(properties[called.self]))
    /\ RLt(Zero, ret)

\* C17: the expense ratio of every property is in [0.30, 0.40]; evaluating a derived
\* metric changes no field of the property; and the expenses and the net income are
\* those of the ratio the property holds, whenever they are evaluated.
C17_ExpenseRatioFixed ==
    [][/\ \A i \in DOMAIN properties' :
             /\ 3 * properties'[i].expense_ratio.d <= 10 * properties'[i].expense_ratio.n
             /\ 10 * properties'[i].expense_ratio.n <= 4 * properties'[i].expense_ratio.d
       /\ called'.name \in {"total_price", "gross_income", "management_fee", "total_expenses",
                             "net_income", "cap_rate"} =>
             /\ properties' = properties
             /\ called'.name = "total_expenses" =>
                   ret' = RMul(gross_income(properties[called'.self]),
                               properties[called'.self].expense_ratio)
             /\ called'.name = "net_income" =>
                   ret' = RMul(gross_income(properties[called'.self]),
                               RSub(One, properties[called'.self].expense_ratio))]_vars

\* the expenses of a property of ratio 0.40 evaluated after another of its metrics
C17_Witness ==
    /\ called.name = "total_expenses"
    /\ properties[called.self].expense_ratio = Rat(4, 10)
    /\ properties[called.self].units > 0
    /\ ret = RMul(gross_income(properties[called.self]), Rat(4, 10))

\* C18: one derivation gives price = s x (1 - (r - 4)/100) x t x f, rent =
\* s x (1 - (u - 5)/200) x f with the same f, inventory = 1 / (s x t), and changes
\* neither the conditions nor the history.
C18_Multipliers ==
    [][called'.name = "_get_economic_multipliers" =>
          LET s == called'.seasonal
              f == called'.fluctuation
              r == market_conditions.interest_rates
              u == market_conditions.unemployment
              t == CASE market_conditions.trend = "bull" -> Rat(102, 100)
                     [] market_conditions.trend = "bear" -> Rat(98, 100)
                     [] market_conditions.trend = "stable" -> One
          IN  /\ DOMAIN ret' = {"price", "rent", "inventory"}
              /\ ret'.price = RMul(RMul(s, RDiv(RSub(FromInt(104), r), FromInt(100))), RMul(t, f))
              /\ ret'.rent = RMul(RMul(s, RDiv(RSub(FromInt(205), u), FromInt(200))), f)
              /\ ret'.inventory = RInv(RMul(s, t))
              /\ market_conditions' = market_conditions
              /\ history' = history]_vars

\* a derivation in a bull market with the fluctuation at 1.02 and a month in the history
C18_Witness ==
    /\ called.name = "_get_economic_multipliers"
    /\ called.fluctuation = Rat(102, 100)
    /\ market_conditions.trend = "bull"
    /\ market_conditions.interest_rates = Rat(15, 2)
    /\ DOMAIN history # {}

\* C19: the seasonal factor used for month m is the entry ((m - 1) mod 12) + 1 of the
\* table, so it repeats every 12 months, month 12 is December (0.96), month 13 January
\* (0.95), and the default 1.0 is never taken.
C19_SeasonalWraps ==
    called.name = "_get_economic_multipliers" =>
        LET m == called.month
            table == <<Rat(95, 100), Rat(97, 100), Rat(103, 100), Rat(105, 100), Rat(107, 100),
                       Rat(106, 100), Rat(104, 100), Rat(102, 100), Rat(101, 100), One,
                       Rat(98, 100), Rat(96, 100)>>
            t == CASE market_conditions.trend = "bull" -> Rat(102, 100)
                   [] market_conditions.trend = "bear" -> Rat(98, 100)
                   [] market_conditions.trend = "stable" -> One
        IN  /\ called.seasonal = table[((m - 1) % 12) + 1]
            /\ ret.inventory = RInv(RMul(table[((m - 1) % 12) + 1], t))
            /\ m = 12 => called.seasonal = Rat(96, 100)
            /\ m = 13 => called.seasonal = Rat(95, 100)

\* a derivation for month 24, the second December
C19_Witness ==
    /\ called.name = "_get_economic_multipliers"
    /\ called.month = 24
    /\ called.seasonal = Rat(96, 100)

\* C20 (as stated): from the conditions (stable, 4.0, 5.0) and without mutation, the
\* Duplex snapshot of month 1 has its average price within
\* [150000 x 0.95 x 0.95 x 0.98 x 0.95, 250000 x 0.95 x 1.05 x 1.02 x 1.05].
C20_DuplexPriceWithinStatedBound ==
    (called.name = "generate_monthly_samples" /\ ~called.mutated /\ called.current_month = 1) =>
        LET low == RMul(RMul(RMul(RMul(FromInt(150000), Rat(95, 100)), Rat(95, 100)), Rat(98, 100)), Rat(95, 100))
            high == RMul(RMul(RMul(RMul(FromInt(250000), Rat(95, 100)), Rat(105, 100)), Rat(102, 100)), Rat(105, 100))
        IN  /\ ret[1].property_type = "Duplex"
            /\ RLe(low, ret[1].avg_price_per_unit)
            /\ RLe(ret[1].avg_price_per_unit, high)

\* C20 (amended): the same, with the lower end multiplied by 0.7, the most a distress
\* adjustment takes off a sample's price.
C20_DuplexPriceWithinDistressBound ==
    (called.name = "generate_monthly_samples" /\ ~called.mutated /\ called.current_month = 1) =>
        LET low == RMul(RMul(RMul(RMul(RMul(FromInt(150000), Rat(95, 100)), Rat(95, 100)), Rat(98, 100)), Rat(95, 100)), Rat(7, 10))
            high == RMul(RMul(RMul(RMul(FromInt(250000), Rat(95, 100)), Rat(105, 100)), Rat(102, 100)), Rat(105, 100))
        IN  /\ ret[1].property_type = "Duplex"
            /\ RLe(low, ret[1].avg_price_per_unit)
            /\ RLe(ret[1].avg_price_per_unit, high)

\* a month in which every Duplex sample drew the least price and was distressed at 0.7
C20_Witness ==
    /\ called.name = "generate_monthly_samples"
    /\ ~called.mutated
    /\ called.current_month = 1
    /\ market_conditions \in NeutralConditions
    /\ ret[1].avg_price_per_unit = RMul(FromInt(132667), Rat(7, 10))

\* C21: a generate_monthly_samples call that has begun returns; while it runs it stands
\* in one of the five categories or past the last, with at most 120 samples in the lists,
\* and when it returns the list of five snapshots it returns is the one History holds
\* under the month.
C21_GenerateTerminates ==
    /\ [](Generating =>
            /\ called.i \in 1..Len(property_types) + 1
            /\ Len(called.monthly_data) = called.i - 1
            /\ called.pc = "for _" =>
                  /\ called.i <= Len(property_types)
                  /\ appended(called.lists, DOMAIN called.lists) <= called.sample_size
                  /\ called.sample_size <= 120)
    /\ Generating ~>
            /\ called.name = "generate_monthly_samples"
            /\ called.pc = "return"
            /\ Len(ret) = Len(property_types)
            /\ called.current_month \in DOMAIN history
            /\ history[called.current_month] = ret

\* a call that took 120 samples for a category has returned, over an earlier month 1
C21_Witness ==
    /\ called.name = "generate_monthly_samples"
    /\ "pc" \in DOMAIN called
    /\ called.pc = "return"
    /\ \E i \in 1..Len(property_types) : draws_of(called.draws).pops[i].sample_size = 120
    /\ history[1] = ret
    /\ Len(ret) = 5

\* C22: a call of get_latest_market_data, get_market_trend or get_best_investment leaves
\* the market conditions, the months of the history and every aggregate field of every
\* stored snapshot as they were, and leaves unchanged what each of the three queries
\* returns; repeated at once with the same argument, it returns what it returned before.
C22_QueriesStable ==
    [][called'.name \in {"get_latest_market_data", "get_market_trend", "get_best_investment"} =>
          /\ market_conditions' = market_conditions
          /\ DOMAIN history' = DOMAIN history
          /\ \A m \in DOMAIN history :
                /\ Len(history'[m]) = Len(history[m])
                /\ \A i \in 1..Len(history[m]) : \A f \in dataclass_fields :
                      history'[m][i][f] = history[m][i][f]
          /\ latest_market_data(history') = latest_market_data(history)
          /\ best_investment(history') = best_investment(history)
          /\ \A t \in QueryTypes : get_market_trend(history', t) = get_market_trend(history, t)
          /\ called' = called => ret' = ret]_vars

\* a trend asked over three months after an earlier query labelled the latest month
C22_Witness ==
    /\ called.name = "get_market_trend"
    /\ Cardinality(DOMAIN history) > 2
    /\ "temperature" \in DOMAIN history[max_key(history)][1]
    /\ ret # Zero

\* the sum of value[s] over the samples of a category, each with the draws s
RECURSIVE sample_total(_, _, _)
sample_total(samples, S, value) ==
    IF S = {} THEN Zero
    ELSE LET s == CHOOSE x \in S : TRUE
         IN  RAdd(RMul(FromInt(samples[s]), value[s]), sample_total(samples, S \ {s}, value))

\* C23: in the list generate_monthly_samples returns, the snapshot at place i is that
\* of the samples drawn for category i in this call: its average price, rent, cap rate
\* and days on market times sample_size are the sums over those samples, and its
\* inventory is the number of those samples drawn available.
C23_SnapshotOfOwnSamples ==
    called.name = "generate_monthly_samples" =>
        \A i \in 1..Len(property_types) :
            LET pop == draws_of(called.draws).pops[i]
                S == DOMAIN pop.samples
                n == FromInt(pop.sample_size)
                prop(s) == generate_property_with_economics(property_types[i], called.economic_factors, s)
                price == [s \in S |-> prop(s).price_per_unit]
                rent == [s \in S |-> prop(s).rent_per_unit]
                rate == [s \in S |-> cap_rate(prop(s))]
                dom == [s \in S |-> FromInt(s.dom)]
                one == [s \in S |-> One]
                available == [s \in S |-> IF RLt(s.available_roll, Rat(3, 10)) THEN One ELSE Zero]
            IN  /\ ret[i].property_type = property_types[i]
                /\ sample_total(pop.samples, S, one) = n
                /\ RMul(ret[i].avg_price_per_unit, n) = sample_total(pop.samples, S, price)
                /\ RMul(ret[i].avg_rent_per_unit, n) = sample_total(pop.samples, S, rent)
                /\ RMul(ret[i].avg_cap_rate, n) = sample_total(pop.samples, S, rate)
                /\ RMul(ret[i].days_on_market, n) = sample_total(pop.samples, S, dom)
                /\ FromInt(ret[i].inventory) = sample_total(pop.samples, S, available)

\* a call whose categories drew different samples: all of 120 available in one, 9 of
\* 100 in the next, at different prices
C23_Witness ==
    /\ called.name = "generate_monthly_samples"
    /\ \E i \in 1..Len(property_types) - 1 :
          /\ ret[i].inventory = 120
          /\ ret[i + 1].inventory = 9
          /\ called.sample_sizes[i + 1] = 100
          /\ ret[i + 1].avg_price_per_unit # ret[i].avg_price_per_unit

\* C24: a step changes the interest rate by at most 0.25 and the unemployment by at
\* most 0.5; only a generate_monthly_samples call whose mutation roll fell under 0.1
\* changes the market conditions at all: the queries, and a call without mutation,
\* leave them as they were.
C24_MutationOncePerAdvance ==
    [][/\ RLe(RSub(market_conditions'.interest_rates, market_conditions.interest_rates), Rat(1, 4))
       /\ RLe(RSub(market_conditions.interest_rates, market_conditions'.interest_rates), Rat(1, 4))
       /\ RLe(RSub(market_conditions'.unemployment, market_conditions.unemployment), Rat(1, 2))
       /\ RLe(RSub(market_conditions.unemployment, market_conditions'.unemployment), Rat(1, 2))
       /\ ~(called'.name = "generate_monthly_samples" /\ called'.mutated) =>
              market_conditions' = market_conditions]_vars

\* a mutating call has raised the rates from (2.5, 3.0) by 0.25 and 0.4, and a query
\* followed it
C24_Witness ==
    /\ called.name \in {"get_latest_market_data", "get_market_trend", "get_best_investment"}
    /\ market_conditions.interest_rates = Rat(11, 4)
    /\ market_conditions.unemployment = Rat(17, 5)

\* C25: when the history holds three months or more, the two greatest months hold a
\* snapshot of the type asked and the third-greatest holds none, get_market_trend
\* returns the percentage change of the average price between the two greatest
\* months, without the momentum blend.
C25_TrendWithoutOlderSnapshot ==
    (called.name = "get_market_trend" /\ Cardinality(DOMAIN history) >= 3) =>
        LET m1 == CHOOSE m \in DOMAIN history : \A k \in DOMAIN history : k <= m
            m2 == CHOOSE m \in DOMAIN history \ {m1} : \A k \in DOMAIN history \ {m1} : k <= m
            m3 == CHOOSE m \in DOMAIN history \ {m1, m2} : \A k \in DOMAIN history \ {m1, m2} : k <= m
            of_type(m) == {i \in 1..Len(history[m]) : history[m][i].property_type = called.property_type}
        IN  (of_type(m1) # {} /\ of_type(m2) # {} /\ of_type(m3) = {}) =>
                LET current == history[m1][CHOOSE i \in of_type(m1) : \A j \in of_type(m1) : i <= j]
                    previous == history[m2][CHOOSE i \in of_type(m2) : \A j \in of_type(m2) : i <= j]
                IN  ret = RMul(RDiv(RSub(current.avg_price_per_unit, previous.avg_price_per_unit),
                                    previous.avg_price_per_unit), FromInt(100))

\* the trend of Duplex over months 2 and 3 at different prices, month 1 loaded empty
C25_Witness ==
    /\ called.name = "get_market_trend"
    /\ called.property_type = "Duplex"
    /\ DOMAIN history = {1, 2, 3}
    /\ history[1] = << >>
    /\ ret = FromInt(10)

\* C26: the capital is never negative; buy_property buys when the capital covers the
\* total price: the capital falls by the total price, the property is appended to the
\* owned list and is in neither the available nor the filtered list afterwards, whose
\* other entries stay; otherwise the capital and the three lists stay as they were.
C26_BuyWithinCapital ==
    /\ [](player # NoPlayer => RLe(Zero, player.capital))
    /\ [][called'.name = "buy_property" =>
            LET property == called'.property
                price == RMul(FromInt(properties[property].units), properties[property].price_per_unit)
                others(list) == SelectSeq(list, LAMBDA r : r # property)
            IN  IF RLe(price, player.capital)
                THEN /\ player'.capital = RSub(player.capital, price)
                     /\ player'.properties = player.properties \o <<property>>
                     /\ player'.available_properties = others(player.available_properties)
                     /\ filtered_properties' = others(filtered_properties)
                ELSE /\ player' = player
                     /\ filtered_properties' = filtered_properties]_vars

\* a second purchase that took the capital to exactly 0, with a filtered list shown
C26_Witness ==
    /\ called.name = "buy_property"
    /\ player.capital = Zero
    /\ Len(player.properties) = 2
    /\ Len(filtered_properties) > 0

\* C27 (as stated): after a load of the file that save wrote of the player, each owned
\* and each available property has the expense ratio it had before the save, and so
\* the same total expenses, net income and cap rate.
C27_ExpenseRatioRoundTrips ==
    (/\ called.name = "load"
     /\ "properties" \in DOMAIN ret
     /\ called.file = save_data(properties, player, history)) =>
        /\ Len(ret.properties) = Len(player.properties)
        /\ Len(ret.available_properties) = Len(player.available_properties)
        /\ \A i \in 1..Len(player.properties) :
              LET before == properties[player.properties[i]]
                  after == ret.properties[i]
              IN  /\ after.expense_ratio = before.expense_ratio
                  /\ total_expenses(after) = total_expenses(before)
                  /\ net_income(after) = net_income(before)
                  /\ cap_rate(after) = cap_rate(before)
        /\ \A i \in 1..Len(player.available_properties) :
              LET before == properties[player.available_properties[i]]
                  after == ret.available_properties[i]
              IN  /\ after.expense_ratio = before.expense_ratio
                  /\ total_expenses(after) = total_expenses(before)
                  /\ net_income(after) = net_income(before)
                  /\ cap_rate(after) = cap_rate(before)

====
